---- MODULE Spec2Model ----
(***************************************************************************)
(* Model of oblogout/dbushandler.py: class DbusController, the layer       *)
(* between the logout box and the HAL / ConsoleKit+UPower D-Bus services.  *)
(*                                                                         *)
(* Every operation of the controller is synchronous, so each one is one    *)
(* action.  The remote side is the environment: the values it answers with *)
(* are drawn per operation, and any remote interaction (a bus connection,  *)
(* a get_object, a method call, a property read) may fail with a           *)
(* dbus.DBusException.  The interactions of the last operation are kept in *)
(* `log`, in program order.                                                *)
(***************************************************************************)
EXTENDS Naturals, Sequences, FiniteSets, TLC

VARIABLES
    backend,      \* self.backend of the controller in use
    attrs,        \* names of the attributes set on class DbusController
    constructed,  \* per handle: how often its initialiser ran to completion
    op,           \* the last operation called ("init" after __init__)
    arg,          \* its argument (check_ability's action), "" otherwise
    caps,         \* the capability flags the remote side held during it
    log,          \* the remote interactions it made, in order
    out,          \* "return" or "raise"
    ret,          \* the value returned (Python repr), or the exception
    auth          \* what __auth_perms returned in it: "none" if not called

vars == <<backend, attrs, constructed, op, arg, caps, log, out, ret, auth>>

----------------------------------------------------------------------------
(* Bounds of the exploration *)

MaxSeats == 2       \* seats ConsoleKit reports
MaxSess == 1        \* sessions per seat
MaxConstruct == 1   \* operations are explored while every handle has been
                    \* constructed fewer than MaxConstruct times

(* Program constant *)
AuthTimeout == 300

----------------------------------------------------------------------------
(* Value domains *)

Backends == {"HAL", "ConsoleKit", "None", "Systemd"}
Handles == {"sysbus", "sessbus", "upower", "polkit", "consolekit", "halpm",
            "authagent"}
StatusVals == {"yes", "no", "auth_admin", "Yes"}   \* IsProcessAuthorized answers
GrantVals == {"True", "False", "None"}             \* ObtainAuthorization answers
RetVals == {"True", "False", "None"}               \* power method answers
FlagVals == {"True", "False"}                      \* CanSuspend / CanHibernate
Abilities == {"suspend", "hibernate", "safesuspend", "restart"}

(* a truth test that every value passes *)
Truthy_Always(v) == v = v

(* Python truth of a flag, as tested by `not` *)
Truthy(v) == v = "True"

RECURSIVE SeqsUpTo(_, _)
SeqsUpTo(S, n) ==
    IF n = 0 THEN {<<>>}
    ELSE LET shorter == SeqsUpTo(S, n - 1)
         IN  shorter \cup {Append(q, x) : q \in shorter, x \in S}

SeatLists == SeqsUpTo(0..MaxSess, MaxSeats)

(* What the authorization services answer during one __auth_perms: the     *)
(* first status, the agent's answer, the second status.  When the first    *)
(* status is "yes" the other two are never asked for.                      *)
AuthAnswers ==
    {[s1 |-> "yes", grant |-> "None", s2 |-> "yes"]}
    \cup [s1 : StatusVals \ {"yes"}, grant : GrantVals, s2 : StatusVals]

CapSets == [CanSuspend : FlagVals, CanHibernate : FlagVals]

----------------------------------------------------------------------------
(* One remote interaction *)

Call(handle, obj, meth, a, res, n) ==
    [handle |-> handle, obj |-> obj, meth |-> meth, arg |-> a, res |-> res,
     n |-> n]

(* The run of one operation: the interactions so far, whether an exception *)
(* is propagating, the class attributes, and the interaction that fails.   *)
Start(at, failAt) ==
    [log |-> <<>>, exc |-> FALSE, attrs |-> at, failAt |-> failAt]

Step(s, c) ==
    IF s.exc THEN s
    ELSE IF Len(s.log) + 1 = s.failAt
         THEN [s EXCEPT !.log = Append(@, [c EXCEPT !.res = "DBusException"]),
                        !.exc = TRUE]
         ELSE [s EXCEPT !.log = Append(@, c)]

(* Python rewrites an identifier __x inside class DbusController to        *)
(* _DbusController__x; the string given to hasattr is not rewritten.       *)
Mangle(name) == "_DbusController" \o name

hasattr(at, name) == name \in at

SetAttr(s, name) ==
    IF s.exc THEN s ELSE [s EXCEPT !.attrs = @ \cup {Mangle(name)}]

_sysbus(s) ==
    IF s.exc \/ hasattr(s.attrs, "__sysbus") THEN s
    ELSE SetAttr(Step(s, Call("sysbus", "dbus", "SystemBus", "", "", 0)),
                 "__sysbus")

_sessbus(s) ==
    IF s.exc \/ hasattr(s.attrs, "__sessbus") THEN s
    ELSE SetAttr(Step(s, Call("sessbus", "dbus", "SessionBus", "", "", 0)),
                 "__sessbus")

_upower(s) ==
    IF s.exc \/ hasattr(s.attrs, "__upower") THEN s
    ELSE SetAttr(Step(_sysbus(s), Call("upower", "sysbus", "get_object",
                                       "org.freedesktop.UPower", "", 0)),
                 "__upower")

_polkit(s) ==
    IF s.exc \/ hasattr(s.attrs, "__polkit") THEN s
    ELSE SetAttr(Step(_sysbus(s), Call("polkit", "sysbus", "get_object",
                                       "org.freedesktop.PolicyKit", "", 0)),
                 "__polkit")

_consolekit(s) ==
    IF s.exc \/ hasattr(s.attrs, "__consolekit") THEN s
    ELSE SetAttr(Step(_sysbus(s), Call("consolekit", "sysbus", "get_object",
                                       "org.freedesktop.ConsoleKit", "", 0)),
                 "__consolekit")

_halpm(s) ==
    IF s.exc \/ hasattr(s.attrs, "__halpm") THEN s
    ELSE SetAttr(Step(_sysbus(s), Call("halpm", "sysbus", "get_object",
                                       "org.freedesktop.Hal", "", 0)),
                 "__halpm")

_authagent(s) ==
    IF s.exc \/ hasattr(s.attrs, "__authagent") THEN s
    ELSE SetAttr(Step(_sessbus(s),
                      Call("authagent", "sessbus", "get_object",
                           "org.freedesktop.PolicyKit.AuthenticationAgent",
                           "", 0)),
                 "__authagent")

----------------------------------------------------------------------------
(* Private helpers.  Each yields the run and the value returned; the value *)
(* means nothing when the run is raising.                                  *)

(* __check_perms with the commented-out try/except put back *)
__check_perms_Catch(s, id, status) ==
    LET s1 == Step(_polkit(s),
                   Call("", "polkit", "IsProcessAuthorized", id, status, 0))
    IN  [s |-> [s1 EXCEPT !.exc = FALSE], v |-> (~s1.exc /\ status = "yes")]

__check_perms(s, id, status) ==
    LET s1 == Step(_polkit(s),
                   Call("", "polkit", "IsProcessAuthorized", id, status, 0))
    IN  [s |-> s1, v |-> (~s1.exc /\ status = "yes")]

(* __auth_perms without the early return on a granted status *)
__auth_perms_AlwaysAsk(s, id, a) ==
    LET c1 == __check_perms(s, id, a.s1)
    IN  IF c1.s.exc THEN c1
        ELSE LET g == Step(_authagent(c1.s),
                           Call("", "authagent", "ObtainAuthorization", id,
                                a.grant, AuthTimeout))
             IN  __check_perms(g, id, IF c1.v THEN a.s1 ELSE a.s2)

(* __auth_perms ending in the commented-out `return bool(grant)` *)
__auth_perms_TrustGrant(s, id, a) ==
    LET c1 == __check_perms(s, id, a.s1)
    IN  IF c1.s.exc \/ c1.v THEN c1
        ELSE LET g == Step(_authagent(c1.s),
                           Call("", "authagent", "ObtainAuthorization", id,
                                a.grant, AuthTimeout))
                 c2 == __check_perms(g, id, a.s2)
             IN  [s |-> c2.s, v |-> (~c2.s.exc /\ a.grant = "True")]

__auth_perms(s, id, a) ==
    LET c1 == __check_perms(s, id, a.s1)
    IN  IF c1.s.exc \/ c1.v THEN c1
        ELSE LET g == Step(_authagent(c1.s),
                           Call("", "authagent", "ObtainAuthorization", id,
                                a.grant, AuthTimeout))
             IN  __check_perms(g, id, a.s2)

RECURSIVE SeatLoop(_, _, _, _)
SeatLoop(s, seats, i, cnt) ==
    IF s.exc \/ i > Len(seats) THEN [s |-> s, v |-> cnt]
    ELSE LET bus == Step(s, Call("sysbus", "dbus", "SystemBus", "", "", 0))
             obj == Step(bus, Call("", "sysbus", "get_object",
                                   "org.freedesktop.ConsoleKit.Seat", "", i))
             got == Step(obj, Call("", "seat", "GetSessions", "", "",
                                   seats[i]))
         IN  SeatLoop(got, seats, i + 1, cnt + seats[i])

(* __get_sessions counting the seats instead of their sessions *)
__get_sessions_CountSeats(s, seats) ==
    LET s1 == Step(_consolekit(s),
                   Call("", "consolekit", "GetSeats", "", "", Len(seats)))
    IN  [s |-> SeatLoop(s1, seats, 1, 0).s, v |-> Len(seats)]

__get_sessions(s, seats) ==
    LET s1 == Step(_consolekit(s),
                   Call("", "consolekit", "GetSeats", "", "", Len(seats)))
    IN  SeatLoop(s1, seats, 1, 0)

----------------------------------------------------------------------------
(* Public operations.  Each yields the outcome of the whole call.          *)

Outcome(s, value, authorised) ==
    [log |-> s.log, attrs |-> s.attrs,
     out |-> IF s.exc THEN "raise" ELSE "return",
     ret |-> IF s.exc THEN "DBusException" ELSE value,
     auth |-> authorised]

AuthOf(a) == IF a.s.exc THEN "raise" ELSE IF a.v THEN "True" ELSE "False"

(* check() without its try/except *)
check_NoCatch(b, at, failAt) ==
    LET s0 == Start(at, failAt)
    IN  IF b = "HAL"
        THEN Outcome(Step(_sysbus(s0), Call("", "sysbus", "get_object",
                                            "org.freedesktop.Hal", "", 0)),
                     "True", "none")
        ELSE IF b = "ConsoleKit"
        THEN LET s1 == Step(_sysbus(s0),
                            Call("", "sysbus", "get_object",
                                 "org.freedesktop.ConsoleKit", "", 0))
             IN  Outcome(Step(_sysbus(s1),
                              Call("", "sysbus", "get_object",
                                   "org.freedesktop.UPower", "", 0)),
                         "True", "none")
        ELSE Outcome(s0, "False", "none")

check(b, at, failAt) ==
    LET s0 == Start(at, failAt)
    IN  IF b = "HAL"
        THEN LET s1 == Step(_sysbus(s0), Call("", "sysbus", "get_object",
                                              "org.freedesktop.Hal", "", 0))
             IN  IF s1.exc
                 THEN Outcome([s1 EXCEPT !.exc = FALSE], "False", "none")
                 ELSE Outcome(s1, "True", "none")
        ELSE IF b = "ConsoleKit"
        THEN LET s1 == Step(_sysbus(s0),
                            Call("", "sysbus", "get_object",
                                 "org.freedesktop.ConsoleKit", "", 0))
                 s2 == Step(_sysbus(s1),
                            Call("", "sysbus", "get_object",
                                 "org.freedesktop.UPower", "", 0))
             IN  IF s2.exc
                 THEN Outcome([s2 EXCEPT !.exc = FALSE], "False", "none")
                 ELSE Outcome(s2, "True", "none")
        ELSE Outcome(s0, "False", "none")

check_ability(b, at, action, c, failAt) ==
    LET s0 == Start(at, failAt)
    IN  IF b = "HAL"
        THEN IF action = "suspend"
             THEN Outcome(Step(_halpm(s0), Call("", "halpm", "CanSuspend", "",
                                                c.CanSuspend, 0)),
                          c.CanSuspend, "none")
             ELSE IF action = "hibernate"
             THEN Outcome(Step(_halpm(s0), Call("", "halpm", "CanHibernate",
                                                "", c.CanHibernate, 0)),
                          c.CanHibernate, "none")
             ELSE IF action = "safesuspend"
             THEN LET h == Step(_halpm(s0), Call("", "halpm", "CanHibernate",
                                                 "", c.CanHibernate, 0))
                  IN  IF h.exc \/ ~Truthy(c.CanHibernate)
                      THEN Outcome(h, "False", "none")
                      ELSE LET u == Step(_halpm(h),
                                         Call("", "halpm", "CanSuspend", "",
                                              c.CanSuspend, 0))
                           IN  IF u.exc \/ ~Truthy(c.CanSuspend)
                               THEN Outcome(u, "False", "none")
                               ELSE Outcome(u, "True", "none")
             ELSE Outcome(s0, "True", "none")
        ELSE IF b = "ConsoleKit"
        THEN IF action = "suspend"
             THEN Outcome(Step(_upower(s0), Call("", "upower", "CanSuspend",
                                                 "", c.CanSuspend, 0)),
                          c.CanSuspend, "none")
             ELSE IF action = "hibernate"
             THEN Outcome(Step(_upower(s0), Call("", "upower", "CanHibernate",
                                                 "", c.CanHibernate, 0)),
                          c.CanHibernate, "none")
             ELSE IF action = "safesuspend"
             THEN LET h == Step(_upower(s0),
                                Call("", "upower", "CanHibernate", "",
                                     c.CanHibernate, 0))
                  IN  IF h.exc \/ ~Truthy(c.CanHibernate)
                      THEN Outcome(h, "False", "none")
                      ELSE LET u == Step(_upower(h),
                                         Call("", "upower", "CanSuspend", "",
                                              c.CanSuspend, 0))
                           IN  IF u.exc \/ ~Truthy(c.CanSuspend)
                               THEN Outcome(u, "False", "none")
                               ELSE Outcome(u, "True", "none")
             ELSE Outcome(s0, "True", "none")
        ELSE Outcome(s0, "True", "none")

restart(b, at, seats, a, pret, failAt) ==
    LET s0 == Start(at, failAt)
    IN  IF b = "HAL"
        THEN LET n == __get_sessions(s0, seats)
                 p == IF n.v > 1
                      THEN __auth_perms(n.s,
                             "org.freedesktop.hal.power-management.reboot-multiple-sessions",
                             a)
                      ELSE __auth_perms(n.s,
                             "org.freedesktop.hal.power-management.reboot", a)
             IN  IF n.s.exc THEN Outcome(n.s, "", "none")
                 ELSE IF p.s.exc \/ ~p.v THEN Outcome(p.s, "False", AuthOf(p))
                 ELSE Outcome(Step(_halpm(p.s),
                                   Call("", "halpm", "Reboot", "", pret, 0)),
                              pret, "True")
        ELSE IF b = "ConsoleKit"
        THEN Outcome(Step(_consolekit(s0),
                          Call("", "consolekit", "Restart", "", pret, 0)),
                     pret, "none")
        ELSE Outcome(s0, "False", "none")

(* shutdown() turning the daemon's answer into a bool *)
shutdown_Coerce(b, at, seats, a, pret, failAt) ==
    LET s0 == Start(at, failAt)
    IN  IF b = "HAL"
        THEN LET n == __get_sessions(s0, seats)
                 p == IF n.v > 1
                      THEN __auth_perms(n.s,
                             "org.freedesktop.hal.power-management.shutdown-multiple-sessions",
                             a)
                      ELSE __auth_perms(n.s,
                             "org.freedesktop.hal.power-management.shutdown", a)
             IN  IF n.s.exc THEN Outcome(n.s, "", "none")
                 ELSE IF p.s.exc \/ ~p.v THEN Outcome(p.s, "False", AuthOf(p))
                 ELSE Outcome(Step(_halpm(p.s),
                                   Call("", "halpm", "Shutdown", "", pret, 0)),
                              pret, "True")
        ELSE IF b = "ConsoleKit"
        THEN Outcome(Step(_consolekit(s0),
                          Call("", "consolekit", "Stop", "", pret, 0)),
                     IF Truthy(pret) THEN "True" ELSE "False", "none")
        ELSE Outcome(s0, "False", "none")

shutdown(b, at, seats, a, pret, failAt) ==
    LET s0 == Start(at, failAt)
    IN  IF b = "HAL"
        THEN LET n == __get_sessions(s0, seats)
                 p == IF n.v > 1
                      THEN __auth_perms(n.s,
                             "org.freedesktop.hal.power-management.shutdown-multiple-sessions",
                             a)
                      ELSE __auth_perms(n.s,
                             "org.freedesktop.hal.power-management.shutdown", a)
             IN  IF n.s.exc THEN Outcome(n.s, "", "none")
                 ELSE IF p.s.exc \/ ~p.v THEN Outcome(p.s, "False", AuthOf(p))
                 ELSE Outcome(Step(_halpm(p.s),
                                   Call("", "halpm", "Shutdown", "", pret, 0)),
                              pret, "True")
        ELSE IF b = "ConsoleKit"
        THEN Outcome(Step(_consolekit(s0),
                          Call("", "consolekit", "Stop", "", pret, 0)),
                     pret, "none")
        ELSE Outcome(s0, "False", "none")

(* suspend() ignoring what __auth_perms returned *)
suspend_NoGate(b, at, a, pret, failAt) ==
    LET s0 == Start(at, failAt)
    IN  IF b = "HAL"
        THEN LET p == __auth_perms(s0,
                        "org.freedesktop.hal.power-management.suspend", a)
             IN  IF p.s.exc THEN Outcome(p.s, "False", AuthOf(p))
                 ELSE Outcome(Step(_halpm(p.s),
                                   Call("", "halpm", "Suspend", "", pret, 0)),
                              pret, AuthOf(p))
        ELSE IF b = "ConsoleKit"
        THEN Outcome(Step(_upower(s0),
                          Call("", "upower", "Suspend", "", pret, 0)),
                     pret, "none")
        ELSE Outcome(s0, "False", "none")

suspend(b, at, a, pret, failAt) ==
    LET s0 == Start(at, failAt)
    IN  IF b = "HAL"
        THEN LET p == __auth_perms(s0,
                        "org.freedesktop.hal.power-management.suspend", a)
             IN  IF p.s.exc \/ ~p.v THEN Outcome(p.s, "False", AuthOf(p))
                 ELSE Outcome(Step(_halpm(p.s),
                                   Call("", "halpm", "Suspend", "", pret, 0)),
                              pret, "True")
        ELSE IF b = "ConsoleKit"
        THEN Outcome(Step(_upower(s0),
                          Call("", "upower", "Suspend", "", pret, 0)),
                     pret, "none")
        ELSE Outcome(s0, "False", "none")

(* hibernate() with a plain else in place of the test for "ConsoleKit" *)
hibernate_Fallthrough(b, at, a, pret, failAt) ==
    LET s0 == Start(at, failAt)
    IN  IF b = "HAL"
        THEN LET p == __auth_perms(s0,
                        "org.freedesktop.hal.power-management.hibernate", a)
             IN  IF p.s.exc \/ ~p.v THEN Outcome(p.s, "False", AuthOf(p))
                 ELSE Outcome(Step(_halpm(p.s),
                                   Call("", "halpm", "Hibernate", "", pret, 0)),
                              pret, "True")
        ELSE Outcome(Step(_upower(s0),
                          Call("", "upower", "Hibernate", "", pret, 0)),
                     pret, "none")

hibernate(b, at, a, pret, failAt) ==
    LET s0 == Start(at, failAt)
    IN  IF b = "HAL"
        THEN LET p == __auth_perms(s0,
                        "org.freedesktop.hal.power-management.hibernate", a)
             IN  IF p.s.exc \/ ~p.v THEN Outcome(p.s, "False", AuthOf(p))
                 ELSE Outcome(Step(_halpm(p.s),
                                   Call("", "halpm", "Hibernate", "", pret, 0)),
                              pret, "True")
        ELSE IF b = "ConsoleKit"
        THEN Outcome(Step(_upower(s0),
                          Call("", "upower", "Hibernate", "", pret, 0)),
                     pret, "none")
        ELSE Outcome(s0, "False", "none")

safesuspend(b, at) == Outcome(Start(at, 0), "None", "none")

----------------------------------------------------------------------------
(* The state machine *)

Built(l, h) ==
    Cardinality({i \in 1..Len(l) :
                    l[i].handle = h /\ l[i].res /= "DBusException"})

Commit(name, a, c, r) ==
    /\ op' = name
    /\ arg' = a
    /\ caps' = c
    /\ log' = r.log
    /\ out' = r.out
    /\ ret' = r.ret
    /\ auth' = r.auth
    /\ attrs' = r.attrs
    /\ constructed' = [h \in Handles |-> constructed[h] + Built(r.log, h)]
    /\ UNCHANGED backend

Idle == [CanSuspend |-> "-", CanHibernate |-> "-"]

(* A controller holds nothing but its backend, so a further call on it is  *)
(* the same as a call on a new controller of that backend: an operation is *)
(* taken on a controller that has just been constructed.                   *)
Open == op = "init" /\ \A h \in Handles : constructed[h] < MaxConstruct

Init ==
    /\ backend \in Backends
    /\ attrs = {}
    /\ constructed = [h \in Handles |-> 0]
    /\ op = "init"
    /\ arg = ""
    /\ caps = Idle
    /\ log = <<>>
    /\ out = "return"
    /\ ret = "None"
    /\ auth = "none"

(* DbusController(b): a further controller in the same process *)
New ==
    /\ \E b \in Backends : backend' = b
    /\ op' = "init" /\ arg' = "" /\ caps' = Idle /\ log' = <<>>
    /\ out' = "return" /\ ret' = "None" /\ auth' = "none"
    /\ UNCHANGED <<attrs, constructed>>

(* The remote side answers only what it is asked: an answer the run never  *)
(* asks for is left at its default, and a failure point past the end of    *)
(* the run is not drawn, so that each outcome is produced once.            *)
Answered(r, meths) ==
    \E i \in 1..Len(r.log) :
        r.log[i].meth \in meths /\ r.log[i].res /= "DBusException"

Granted == [s1 |-> "yes", grant |-> "None", s2 |-> "yes"]
PowerMethods == {"Reboot", "Shutdown", "Suspend", "Hibernate", "Restart",
                 "Stop"}

SeatsAsked(r) == IF Answered(r, {"GetSeats"}) THEN SeatLists ELSE {<<>>}
AuthAsked(r) ==
    IF Answered(r, {"IsProcessAuthorized"}) THEN AuthAnswers ELSE {Granted}
RetAsked(r) == IF Answered(r, PowerMethods) THEN RetVals ELSE {"None"}
CapsAsked(r) ==
    IF Answered(r, {"CanSuspend", "CanHibernate"}) THEN CapSets
    ELSE {[CanSuspend |-> "True", CanHibernate |-> "True"]}

(* the longest run, restart() or shutdown() on HAL, makes fifteen          *)
(* interactions and three more per seat                                    *)
FailPoints == 0..(15 + 3 * MaxSeats)

Check ==
    /\ Open
    /\ \E k \in FailPoints :
          LET r == check(backend, attrs, k)
          IN  k <= Len(r.log) /\ Commit("check", "", Idle, r)

CheckAbility ==
    /\ Open
    /\ \E action \in Abilities, k \in FailPoints :
       \E c \in CapsAsked(check_ability(backend, attrs, action,
                            [CanSuspend |-> "True", CanHibernate |-> "True"],
                            k)) :
          LET r == check_ability(backend, attrs, action, c, k)
          IN  k <= Len(r.log) /\ Commit("check_ability", action, c, r)

Restart ==
    /\ Open
    /\ \E k \in FailPoints :
       \E seats \in SeatsAsked(restart(backend, attrs, <<>>, Granted, "None", k)) :
       \E a \in AuthAsked(restart(backend, attrs, seats, Granted, "None", k)) :
       \E pret \in RetAsked(restart(backend, attrs, seats, a, "None", k)) :
          LET r == restart(backend, attrs, seats, a, pret, k)
          IN  k <= Len(r.log) /\ Commit("restart", "", Idle, r)

Shutdown ==
    /\ Open
    /\ \E k \in FailPoints :
       \E seats \in SeatsAsked(shutdown(backend, attrs, <<>>, Granted, "None", k)) :
       \E a \in AuthAsked(shutdown(backend, attrs, seats, Granted, "None", k)) :
       \E pret \in RetAsked(shutdown(backend, attrs, seats, a, "None", k)) :
          LET r == shutdown(backend, attrs, seats, a, pret, k)
          IN  k <= Len(r.log) /\ Commit("shutdown", "", Idle, r)

Suspend ==
    /\ Open
    /\ \E k \in FailPoints :
       \E a \in AuthAsked(suspend(backend, attrs, Granted, "None", k)) :
       \E pret \in RetAsked(suspend(backend, attrs, a, "None", k)) :
          LET r == suspend(backend, attrs, a, pret, k)
          IN  k <= Len(r.log) /\ Commit("suspend", "", Idle, r)

Hibernate ==
    /\ Open
    /\ \E k \in FailPoints :
       \E a \in AuthAsked(hibernate(backend, attrs, Granted, "None", k)) :
       \E pret \in RetAsked(hibernate(backend, attrs, a, "None", k)) :
          LET r == hibernate(backend, attrs, a, pret, k)
          IN  k <= Len(r.log) /\ Commit("hibernate", "", Idle, r)

SafeSuspend ==
    /\ Open
    /\ Commit("safesuspend", "", Idle, safesuspend(backend, attrs))

Next ==
    \/ New
    \/ Check
    \/ CheckAbility
    \/ Restart
    \/ Shutdown
    \/ Suspend
    \/ Hibernate
    \/ SafeSuspend

Spec == Init /\ [][Next]_vars

----------------------------------------------------------------------------
(* Reading the log of the last operation *)

Idx == 1..Len(log)
Failed(i) == log[i].res = "DBusException"
IsStatus(i) == log[i].meth = "IsProcessAuthorized"
IsRequest(i) == log[i].meth = "ObtainAuthorization"
IsPower(i) == log[i].meth \in PowerMethods
StatusIdx == {i \in Idx : IsStatus(i)}
RequestIdx == {i \in Idx : IsRequest(i)}
PowerIdx == {i \in Idx : IsPower(i)}
SessionIdx == {i \in Idx : log[i].meth = "GetSessions" /\ ~Failed(i)}

PowerOps == {"restart", "shutdown", "suspend", "hibernate"}
Recognised == {"HAL", "ConsoleKit"}
IsTrue(v) == v = "True"

HalMethod(o) ==
    CASE o = "restart" -> "Reboot"
      [] o = "shutdown" -> "Shutdown"
      [] o = "suspend" -> "Suspend"
      [] o = "hibernate" -> "Hibernate"

DaemonCall(o) ==
    CASE o = "restart" -> <<"consolekit", "Restart">>
      [] o = "shutdown" -> <<"consolekit", "Stop">>
      [] o = "suspend" -> <<"upower", "Suspend">>
      [] o = "hibernate" -> <<"upower", "Hibernate">>

SingleId(o) ==
    CASE o = "restart" -> "org.freedesktop.hal.power-management.reboot"
      [] o = "shutdown" -> "org.freedesktop.hal.power-management.shutdown"
      [] o = "suspend" -> "org.freedesktop.hal.power-management.suspend"
      [] o = "hibernate" -> "org.freedesktop.hal.power-management.hibernate"

MultiId(o) == SingleId(o) \o "-multiple-sessions"

RECURSIVE SumN(_)
SumN(I) == IF I = {} THEN 0
           ELSE LET i == CHOOSE j \in I : TRUE IN log[i].n + SumN(I \ {i})

(* the answer of the last status query made, "" when none was answered *)
FinalStatus ==
    LET A == {i \in StatusIdx : ~Failed(i)}
    IN  IF A = {} THEN ""
        ELSE log[CHOOSE i \in A : \A j \in A : j <= i].res

----------------------------------------------------------------------------
(* C1: on the HAL backend, restart/shutdown/suspend/hibernate invoke the   *)
(* remote power method only after the authorization step for that action   *)
(* has succeeded (the last status query before it answered "yes" for the   *)
(* action's identifier); when the authorization step ends not granted the  *)
(* operation returns False, and the power method is never invoked while    *)
(* the last status answer is not "yes".                                    *)
C1_PowerOnlyAfterAuth ==
    (backend = "HAL" /\ op \in PowerOps) =>
        /\ \A i \in PowerIdx :
              /\ log[i].meth = HalMethod(op)
              /\ auth = "True"
              /\ \E j \in StatusIdx :
                    /\ j < i
                    /\ log[j].res = "yes"
                    /\ log[j].arg \in {SingleId(op), MultiId(op)}
                    /\ \A k \in StatusIdx : k <= j
        /\ (FinalStatus /= "yes") => PowerIdx = {}
        /\ (auth = "False") => (out = "return" /\ ret = "False" /\ PowerIdx = {})

C1_Witness ==
    /\ backend = "HAL" /\ op = "restart" /\ auth = "False"
    /\ out = "return" /\ ret = "False"
    /\ SumN(SessionIdx) = 2
    /\ RequestIdx /= {}
    /\ Cardinality(StatusIdx) = 2

(* C2: when the first status query answers "yes", the authorization step   *)
(* succeeds at once and no ObtainAuthorization call is made in that        *)
(* operation.                                                              *)
C2_GrantedShortCircuits ==
    \A i \in StatusIdx :
        ((\A j \in StatusIdx : i <= j) /\ log[i].res = "yes") =>
            /\ RequestIdx = {}
            /\ StatusIdx = {i}
            /\ auth = "True"
            /\ \A k \in Idx : log[k].handle \notin {"sessbus", "authagent"}

C2_Witness ==
    /\ backend = "HAL" /\ op = "suspend" /\ out = "return"
    /\ \E i \in StatusIdx : log[i].res = "yes"
    /\ RequestIdx = {}
    /\ \E i \in PowerIdx : log[i].meth = "Suspend" /\ ~Failed(i)

(* C3: when the first status query is answered and is not "yes", one       *)
(* authorization request is made and the status is queried again for the   *)
(* same identifier; the step returns true iff that second answer is        *)
(* exactly "yes", whatever the request itself returned.                    *)
C3_RecheckDecides ==
    \A i \in StatusIdx :
        ((\A j \in StatusIdx : i <= j) /\ ~Failed(i) /\ log[i].res /= "yes") =>
            /\ Cardinality(RequestIdx) <= 1
            /\ \A r \in RequestIdx : i < r /\ log[r].arg = log[i].arg
            /\ Cardinality(StatusIdx) <= 2
            /\ (auth /= "raise") =>
                  /\ Cardinality(RequestIdx) = 1
                  /\ \E j \in StatusIdx :
                        /\ \A r \in RequestIdx : r < j
                        /\ log[j].arg = log[i].arg
                        /\ (auth = "True") <=> (log[j].res = "yes")
                  /\ auth \in {"True", "False"}

C3_Witness ==
    /\ auth = "True" /\ out = "return"
    /\ \E r \in RequestIdx : log[r].res = "False"
    /\ \E i \in StatusIdx : log[i].res = "auth_admin"
    /\ PowerIdx /= {}

(* C4: on the HAL backend, restart() and shutdown() authorize the          *)
(* multi-session identifier when the sum of the seats' session counts is   *)
(* greater than 1 and the single-session identifier otherwise, and every   *)
(* status query and request of the call carries that one identifier.       *)
C4_SessionCountSelectsId ==
    (backend = "HAL" /\ op \in {"restart", "shutdown"}) =>
        \A i \in StatusIdx \cup RequestIdx :
            /\ \E g \in Idx : /\ log[g].meth = "GetSeats"
                              /\ log[g].n = Cardinality(SessionIdx)
            /\ log[i].arg = IF SumN(SessionIdx) > 1 THEN MultiId(op)
                            ELSE SingleId(op)

C4_Witness ==
    /\ backend = "HAL" /\ op = "shutdown"
    /\ Cardinality(SessionIdx) = 2
    /\ \A i \in SessionIdx : log[i].n = 1
    /\ Cardinality(StatusIdx) = 2
    /\ RequestIdx /= {}
    /\ \A i \in StatusIdx \cup RequestIdx : log[i].arg = MultiId("shutdown")

(* C5: on the ConsoleKit backend, restart/shutdown/suspend/hibernate make  *)
(* no status query, no authorization request and no session count; they    *)
(* resolve the daemon and invoke its method, and what the operation        *)
(* returns is what that method returned.                                   *)
C5_DaemonCalledDirectly ==
    (backend = "ConsoleKit" /\ op \in PowerOps) =>
        /\ auth = "none"
        /\ \A i \in Idx :
              /\ log[i].meth \notin {"IsProcessAuthorized", "ObtainAuthorization",
                                     "GetSeats", "GetSessions"}
              /\ log[i].handle \notin {"polkit", "authagent", "sessbus"}
              /\ IsPower(i) => (i = Len(log) /\
                                <<log[i].obj, log[i].meth>> = DaemonCall(op))
        /\ (out = "return") =>
              /\ Len(log) > 0
              /\ IsPower(Len(log))
              /\ ret = log[Len(log)].res

C5_Witness ==
    /\ backend = "ConsoleKit" /\ op = "restart" /\ out = "return"
    /\ ret = "None"
    /\ \E i \in Idx : log[i].obj = "consolekit" /\ log[i].meth = "Restart"

(* C6 as stated: check() never raises, and returns False exactly when an   *)
(* endpoint resolution failed.                                             *)
C6_FalseOnlyOnFailure ==
    (op = "check") =>
        /\ out = "return"
        /\ (ret = "False") <=> (\E i \in Idx : Failed(i))
        /\ ret \in {"True", "False"}

(* C6, amended: check() never raises; with the HAL or the ConsoleKit       *)
(* backend it returns False when a resolution failed and True otherwise    *)
(* (for ConsoleKit, True needs both the ConsoleKit and the UPower object   *)
(* resolved); with any other backend it returns False.                     *)
C6_Available ==
    (op = "check") =>
        /\ out = "return"
        /\ ret \in {"True", "False"}
        /\ (backend \in Recognised) =>
              ((ret = "False") <=> (\E i \in Idx : Failed(i)))
        /\ (backend \notin Recognised) => ret = "False"
        /\ (backend = "ConsoleKit" /\ ret = "True") =>
              \A name \in {"org.freedesktop.ConsoleKit",
                           "org.freedesktop.UPower"} :
                  \E i \in Idx : /\ log[i].meth = "get_object"
                                 /\ log[i].arg = name
                                 /\ ~Failed(i)
        /\ (backend = "HAL" /\ ret = "True") =>
              \E i \in Idx : /\ log[i].meth = "get_object"
                             /\ log[i].arg = "org.freedesktop.Hal"
                             /\ ~Failed(i)

C6_Witness ==
    /\ op = "check" /\ backend = "ConsoleKit" /\ ret = "False"
    /\ \E i \in Idx : /\ log[i].arg = "org.freedesktop.ConsoleKit"
                      /\ ~Failed(i)
    /\ \E i \in Idx : log[i].arg = "org.freedesktop.UPower" /\ Failed(i)

(* C7: check_ability('safesuspend') is true iff check_ability('suspend')   *)
(* and check_ability('hibernate') are both true under the same capability  *)
(* flags, on every backend.                                                *)
C7_SafeSuspendIsBoth ==
    (op = "check_ability" /\ arg = "safesuspend" /\ out = "return") =>
        (IsTrue(ret) <=>
            /\ IsTrue(check_ability(backend, attrs, "suspend", caps, 0).ret)
            /\ IsTrue(check_ability(backend, attrs, "hibernate", caps, 0).ret))

C7_Witness ==
    /\ op = "check_ability" /\ arg = "safesuspend" /\ out = "return"
    /\ backend = "ConsoleKit"
    /\ caps = [CanSuspend |-> "False", CanHibernate |-> "True"]
    /\ ret = "False"
    /\ \E i \in Idx : log[i].meth = "CanSuspend" /\ log[i].res = "False"

(* C8: every endpoint handle is created at most once per process.          *)
C8_HandlesCreatedOnce == \A h \in Handles : constructed[h] <= 1

(* C9: outside check(), a failing remote interaction is not caught: the    *)
(* operation raises, and nothing of it runs after the failing call.        *)
C9_FailuresPropagate ==
    (op \notin {"check", "init"}) =>
        /\ \A i \in Idx : Failed(i) =>
              (i = Len(log) /\ out = "raise" /\ ret = "DBusException")
        /\ (out = "raise") => (Len(log) > 0 /\ Failed(Len(log)))

C9_Witness ==
    /\ backend = "HAL" /\ op = "restart" /\ out = "raise"
    /\ \E i \in RequestIdx : Failed(i)
    /\ PowerIdx = {}

(* C10: with a backend that is neither "HAL" nor "ConsoleKit", check() and *)
(* the four power operations return False without any remote interaction;  *)
(* safesuspend() makes no remote interaction on any backend.               *)
C10_NoBackendNoInteraction ==
    /\ (backend \notin Recognised /\ op \in PowerOps \cup {"check"}) =>
          (out = "return" /\ ret = "False" /\ log = <<>> /\ auth = "none")
    /\ (op = "safesuspend") => (log = <<>> /\ out = "return")

C10_Witness ==
    /\ backend = "None" /\ op = "restart"
    /\ out = "return" /\ ret = "False" /\ log = <<>>

====
